---- MODULE Spec2Model ----
(***************************************************************************)
(* The m.room.message content types of ruma-events and their serde JSON    *)
(* (de)serialization: the internally tagged MessageEventContent enum, its  *)
(* per-variant structs, and the Relation <-> RelatesToJsonRepr transform.  *)
(*                                                                         *)
(* JSON values are tagged records [t, v]; a JSON object's v is a function  *)
(* from its keys to JSON values.  Option<T> is a sequence of length 0 or 1 *)
(* and Result<T, Error> likewise (<<>> is Err).                            *)
(***************************************************************************)
EXTENDS Integers, Sequences, FiniteSets, TLC

VARIABLES mode, logical, wire, orig, hist, failed, args

vars == <<mode, logical, wire, orig, hist, failed, args>>

(* Longest run of serialize / deserialize calls on one value. *)
MaxSteps == 2

(* Longest chunk of bundled annotations. *)
MaxChunk == 2

-----------------------------------------------------------------------------
(* serde_json::Value *)

JNull == [t |-> "null", v |-> "null"]
JStr(s) == [t |-> "str", v |-> s]
JNum(n) == [t |-> "num", v |-> n]
JObj(f) == [t |-> "obj", v |-> f]
JArr(q) == [t |-> "arr", v |-> q]

NoFields == [k \in {} |-> JNull]

None == <<>>
Some(x) == <<x>>
IsNone(o) == Len(o) = 0
IsSome(o) == Len(o) = 1

Err == <<>>
Ok(x) == <<x>>
IsErr(r) == Len(r) = 0
IsOk(r) == Len(r) = 1

Option(S) == {None} \cup {Some(s) : s \in S}

Has(o, k) == k \in DOMAIN o

(* A struct field without serde attributes: the key must be present. *)
(* parsed is the field type's reading of o[k]. *)
Required(o, k, parsed) == IF Has(o, k) THEN parsed ELSE Err

(* An Option<T> field: a missing key and null are None, anything else is T. *)
Optional(o, k, parsed) ==
    IF ~Has(o, k) \/ o[k].t = "null"
    THEN Ok(None)
    ELSE IF IsErr(parsed) THEN Err ELSE Ok(Some(parsed[1]))

(* #[serde(skip_serializing_if = "Option::is_none")] *)
(* written is the field type's writing of opt[1]. *)
SkipIfNone(k, opt, written) == IF IsNone(opt) THEN NoFields ELSE k :> written

De_String(j) == IF j.t = "str" THEN Ok(j.v) ELSE Err
De_UInt(j) == IF j.t = "num" /\ j.v >= 0 THEN Ok(j.v) ELSE Err
Ser_String(s) == JStr(s)
Ser_UInt(n) == JNum(n)

-----------------------------------------------------------------------------
(* Identifiers and the relation payload structs of room::relationships. *)

EventIds == {"$e1:example.org"}

De_EventId(j) == IF j.t = "str" /\ j.v \in EventIds THEN Ok(j.v) ELSE Err

InReplyTo(e) == [event_id |-> e]
Ser_InReplyTo(r) == JObj("event_id" :> JStr(r.event_id))
De_InReplyTo(j) ==
    IF j.t # "obj" THEN Err
    ELSE LET e == Required(j.v, "event_id", De_EventId(j.v["event_id"]))
         IN IF IsErr(e) THEN Err ELSE Ok(InReplyTo(e[1]))

Annotation(e, k) == [rel_type |-> "m.annotation", event_id |-> e, key |-> k]
Reference(e) == [rel_type |-> "m.reference", event_id |-> e]
Replacement(e) == [rel_type |-> "m.replace", event_id |-> e]

(* RelationJsonRepr: #[serde(tag = "rel_type")] over the three payloads. *)
Ser_RelationJsonRepr(r) ==
    JObj(("rel_type" :> JStr(r.rel_type)) @@ ("event_id" :> JStr(r.event_id))
         @@ (IF r.rel_type = "m.annotation" THEN "key" :> JStr(r.key) ELSE NoFields))

De_RelationJsonRepr(j) ==
    IF j.t # "obj" THEN Err
    ELSE LET tag == Required(j.v, "rel_type", De_String(j.v["rel_type"]))
             e == Required(j.v, "event_id", De_EventId(j.v["event_id"]))
             k == Required(j.v, "key", De_String(j.v["key"]))
         IN IF IsErr(tag) \/ IsErr(e) THEN Err
            ELSE IF tag[1] = "m.annotation"
                 THEN (IF IsErr(k) THEN Err ELSE Ok(Annotation(e[1], k[1])))
            ELSE IF tag[1] = "m.reference" THEN Ok(Reference(e[1]))
            ELSE IF tag[1] = "m.replace" THEN Ok(Replacement(e[1]))
            ELSE Err

(* RelatesToJsonRepr, the wire-side enum: Relation(r) | Reply | Custom(v). *)
Repr_Relation(r) == [repr |-> "Relation", rel |-> r]
Repr_Reply(i) == [repr |-> "Reply", in_reply_to |-> i]
Repr_Custom(v) == [repr |-> "Custom", value |-> v]

Ser_RelatesToJsonRepr(w) ==
    IF w.repr = "Reply" THEN JObj("m.in_reply_to" :> Ser_InReplyTo(w.in_reply_to))
    ELSE IF w.repr = "Relation" THEN Ser_RelationJsonRepr(w.rel)
    ELSE w.value

(* De_RelatesToJsonRepr with the rel_type shapes tried before m.in_reply_to. *)
De_RelatesToJsonRepr_RelTypeFirst(j) ==
    LET reply == IF j.t = "obj"
                 THEN Required(j.v, "m.in_reply_to", De_InReplyTo(j.v["m.in_reply_to"]))
                 ELSE Err
        rel == De_RelationJsonRepr(j)
    IN IF IsOk(rel) THEN Repr_Relation(rel[1])
       ELSE IF IsOk(reply) THEN Repr_Reply(reply[1])
       ELSE Repr_Custom(j)

(* Recognition order: m.in_reply_to, then the rel_type shapes, else Custom. *)
De_RelatesToJsonRepr(j) ==
    LET reply == IF j.t = "obj"
                 THEN Required(j.v, "m.in_reply_to", De_InReplyTo(j.v["m.in_reply_to"]))
                 ELSE Err
        rel == De_RelationJsonRepr(j)
    IN IF IsOk(reply) THEN Repr_Reply(reply[1])
       ELSE IF IsOk(rel) THEN Repr_Relation(rel[1])
       ELSE Repr_Custom(j)

-----------------------------------------------------------------------------
(* enum Relation and its From conversions. *)

Relation_Annotation(a) == [kind |-> "Annotation", inner |-> a]
Relation_Reference(r) == [kind |-> "Reference", inner |-> r]
Relation_Replacement(r) == [kind |-> "Replacement", inner |-> r]
Relation_Reply(i) == [kind |-> "Reply", in_reply_to |-> i]
Relation_Custom(v) == [kind |-> "Custom", value |-> v]

(* impl From<Relation> for RelatesToJsonRepr *)
RelatesToJsonRepr_from(value) ==
    IF value.kind \in {"Annotation", "Reference", "Replacement"} THEN Repr_Relation(value.inner)
    ELSE IF value.kind = "Reply" THEN Repr_Reply(value.in_reply_to)
    ELSE Repr_Custom(value.value)

(* Relation_from with the Custom arm dropping the value it was given. *)
Relation_from_CustomLosesValue(value) ==
    IF value.repr = "Relation"
    THEN (IF value.rel.rel_type = "m.annotation" THEN Relation_Annotation(value.rel)
          ELSE IF value.rel.rel_type = "m.reference" THEN Relation_Reference(value.rel)
          ELSE Relation_Replacement(value.rel))
    ELSE IF value.repr = "Reply" THEN Relation_Reply(value.in_reply_to)
    ELSE Relation_Custom(JObj(NoFields))

(* impl From<RelatesToJsonRepr> for Relation *)
Relation_from(value) ==
    IF value.repr = "Relation"
    THEN (IF value.rel.rel_type = "m.annotation" THEN Relation_Annotation(value.rel)
          ELSE IF value.rel.rel_type = "m.reference" THEN Relation_Reference(value.rel)
          ELSE Relation_Replacement(value.rel))
    ELSE IF value.repr = "Reply" THEN Relation_Reply(value.in_reply_to)
    ELSE Relation_Custom(value.value)

(* #[serde(from = "RelatesToJsonRepr", into = "RelatesToJsonRepr")] *)
Ser_Relation(r) == Ser_RelatesToJsonRepr(RelatesToJsonRepr_from(r))
De_Relation(j) == Ok(Relation_from(De_RelatesToJsonRepr(j)))

-----------------------------------------------------------------------------
(* StringEnum types: a known string is its variant, any other is _Custom. *)

StringEnum_from(known, name, s) ==
    IF s = known THEN [variant |-> name] ELSE [variant |-> "_Custom", s |-> s]
StringEnum_as_ref(known, e) == IF e.variant = "_Custom" THEN e.s ELSE known

HtmlFormat == "org.matrix.custom.html"
MessageFormat_Html == [variant |-> "Html"]
MessageFormat_from(s) == StringEnum_from(HtmlFormat, "Html", s)
MessageFormat_as_str(f) == StringEnum_as_ref(HtmlFormat, f)
Ser_MessageFormat(f) == JStr(MessageFormat_as_str(f))
De_MessageFormat(j) == IF j.t = "str" THEN Ok(MessageFormat_from(j.v)) ELSE Err

UsageLimitReached == "m.server_notice.usage_limit_reached"
ServerNoticeType_from(s) == StringEnum_from(UsageLimitReached, "UsageLimitReached", s)
ServerNoticeType_as_ref(e) == StringEnum_as_ref(UsageLimitReached, e)
Ser_ServerNoticeType(e) == JStr(ServerNoticeType_as_ref(e))
De_ServerNoticeType(j) == IF j.t = "str" THEN Ok(ServerNoticeType_from(j.v)) ELSE Err

MonthlyActiveUser == "monthly_active_user"
LimitType_from(s) == StringEnum_from(MonthlyActiveUser, "MonthlyActiveUser", s)
LimitType_as_ref(e) == StringEnum_as_ref(MonthlyActiveUser, e)
Ser_LimitType(e) == JStr(LimitType_as_ref(e))
De_LimitType(j) == IF j.t = "str" THEN Ok(LimitType_from(j.v)) ELSE Err

-----------------------------------------------------------------------------
(* Structs of the parent module used by the media variants. *)

Ser_EncryptedFile(f) == JObj("url" :> JStr(f.url))
De_EncryptedFile(j) ==
    IF j.t # "obj" THEN Err
    ELSE LET u == Required(j.v, "url", De_String(j.v["url"]))
         IN IF IsErr(u) THEN Err ELSE Ok([url |-> u[1]])

Ser_ThumbnailInfo(i) == JObj(SkipIfNone("mimetype", i.mimetype, Ser_String(i.mimetype[1])))
De_ThumbnailInfo(j) ==
    IF j.t # "obj" THEN Err
    ELSE LET m == Optional(j.v, "mimetype", De_String(j.v["mimetype"]))
         IN IF IsErr(m) THEN Err ELSE Ok([mimetype |-> m[1]])

Ser_ImageInfo(i) == JObj(SkipIfNone("mimetype", i.mimetype, Ser_String(i.mimetype[1])))
De_ImageInfo(j) ==
    IF j.t # "obj" THEN Err
    ELSE LET m == Optional(j.v, "mimetype", De_String(j.v["mimetype"]))
         IN IF IsErr(m) THEN Err ELSE Ok([mimetype |-> m[1]])

-----------------------------------------------------------------------------
(* The info structs of this module. *)

Ser_AudioInfo(i) ==
    JObj(SkipIfNone("duration", i.duration, Ser_UInt(i.duration[1]))
         @@ SkipIfNone("mimetype", i.mimetype, Ser_String(i.mimetype[1]))
         @@ SkipIfNone("size", i.size, Ser_UInt(i.size[1])))
De_AudioInfo(j) ==
    IF j.t # "obj" THEN Err
    ELSE LET d == Optional(j.v, "duration", De_UInt(j.v["duration"]))
             m == Optional(j.v, "mimetype", De_String(j.v["mimetype"]))
             s == Optional(j.v, "size", De_UInt(j.v["size"]))
         IN IF IsErr(d) \/ IsErr(m) \/ IsErr(s) THEN Err
            ELSE Ok([duration |-> d[1], mimetype |-> m[1], size |-> s[1]])

Ser_FileInfo(i) ==
    JObj(SkipIfNone("mimetype", i.mimetype, Ser_String(i.mimetype[1]))
         @@ SkipIfNone("size", i.size, Ser_UInt(i.size[1]))
         @@ SkipIfNone("thumbnail_info", i.thumbnail_info, Ser_ThumbnailInfo(i.thumbnail_info[1]))
         @@ SkipIfNone("thumbnail_url", i.thumbnail_url, Ser_String(i.thumbnail_url[1]))
         @@ SkipIfNone("thumbnail_file", i.thumbnail_file, Ser_EncryptedFile(i.thumbnail_file[1])))
De_FileInfo(j) ==
    IF j.t # "obj" THEN Err
    ELSE LET m == Optional(j.v, "mimetype", De_String(j.v["mimetype"]))
             s == Optional(j.v, "size", De_UInt(j.v["size"]))
             ti == Optional(j.v, "thumbnail_info", De_ThumbnailInfo(j.v["thumbnail_info"]))
             tu == Optional(j.v, "thumbnail_url", De_String(j.v["thumbnail_url"]))
             tf == Optional(j.v, "thumbnail_file", De_EncryptedFile(j.v["thumbnail_file"]))
         IN IF IsErr(m) \/ IsErr(s) \/ IsErr(ti) \/ IsErr(tu) \/ IsErr(tf) THEN Err
            ELSE Ok([mimetype |-> m[1], size |-> s[1], thumbnail_info |-> ti[1],
                     thumbnail_url |-> tu[1], thumbnail_file |-> tf[1]])

Ser_LocationInfo(i) ==
    JObj(SkipIfNone("thumbnail_info", i.thumbnail_info, Ser_ThumbnailInfo(i.thumbnail_info[1]))
         @@ SkipIfNone("thumbnail_url", i.thumbnail_url, Ser_String(i.thumbnail_url[1]))
         @@ SkipIfNone("thumbnail_file", i.thumbnail_file, Ser_EncryptedFile(i.thumbnail_file[1])))
De_LocationInfo(j) ==
    IF j.t # "obj" THEN Err
    ELSE LET ti == Optional(j.v, "thumbnail_info", De_ThumbnailInfo(j.v["thumbnail_info"]))
             tu == Optional(j.v, "thumbnail_url", De_String(j.v["thumbnail_url"]))
             tf == Optional(j.v, "thumbnail_file", De_EncryptedFile(j.v["thumbnail_file"]))
         IN IF IsErr(ti) \/ IsErr(tu) \/ IsErr(tf) THEN Err
            ELSE Ok([thumbnail_info |-> ti[1], thumbnail_url |-> tu[1],
                     thumbnail_file |-> tf[1]])

Ser_VideoInfo(i) ==
    JObj(SkipIfNone("duration", i.duration, Ser_UInt(i.duration[1]))
         @@ SkipIfNone("h", i.height, Ser_UInt(i.height[1]))
         @@ SkipIfNone("w", i.width, Ser_UInt(i.width[1]))
         @@ SkipIfNone("mimetype", i.mimetype, Ser_String(i.mimetype[1]))
         @@ SkipIfNone("size", i.size, Ser_UInt(i.size[1]))
         @@ SkipIfNone("thumbnail_info", i.thumbnail_info, Ser_ThumbnailInfo(i.thumbnail_info[1]))
         @@ SkipIfNone("thumbnail_url", i.thumbnail_url, Ser_String(i.thumbnail_url[1]))
         @@ SkipIfNone("thumbnail_file", i.thumbnail_file, Ser_EncryptedFile(i.thumbnail_file[1])))
De_VideoInfo(j) ==
    IF j.t # "obj" THEN Err
    ELSE LET d == Optional(j.v, "duration", De_UInt(j.v["duration"]))
             h == Optional(j.v, "h", De_UInt(j.v["h"]))
             w == Optional(j.v, "w", De_UInt(j.v["w"]))
             m == Optional(j.v, "mimetype", De_String(j.v["mimetype"]))
             s == Optional(j.v, "size", De_UInt(j.v["size"]))
             ti == Optional(j.v, "thumbnail_info", De_ThumbnailInfo(j.v["thumbnail_info"]))
             tu == Optional(j.v, "thumbnail_url", De_String(j.v["thumbnail_url"]))
             tf == Optional(j.v, "thumbnail_file", De_EncryptedFile(j.v["thumbnail_file"]))
         IN IF IsErr(d) \/ IsErr(h) \/ IsErr(w) \/ IsErr(m) \/ IsErr(s)
               \/ IsErr(ti) \/ IsErr(tu) \/ IsErr(tf) THEN Err
            ELSE Ok([duration |-> d[1], height |-> h[1], width |-> w[1],
                     mimetype |-> m[1], size |-> s[1], thumbnail_info |-> ti[1],
                     thumbnail_url |-> tu[1], thumbnail_file |-> tf[1]])

-----------------------------------------------------------------------------
(* FormattedBody and its #[serde(flatten)] embedding as Option<FormattedBody>. *)

FormattedBody(f, b) == [format |-> f, body |-> b]
FormattedBody_html(b) == FormattedBody(MessageFormat_Html, b)

Ser_FormattedBody(fb) ==
    ("format" :> Ser_MessageFormat(fb.format)) @@ ("formatted_body" :> JStr(fb.body))
De_FormattedBody(o) ==
    LET f == Required(o, "format", De_MessageFormat(o["format"]))
        b == Required(o, "formatted_body", De_String(o["formatted_body"]))
    IN IF IsErr(f) \/ IsErr(b) THEN Err ELSE Ok(FormattedBody(f[1], b[1]))

(* Flattened Option<T>: Some writes T's fields into the parent, None nothing; *)
(* reading gives None whenever T cannot be read from the parent's keys.      *)
Ser_FlattenFormatted(opt) == IF IsNone(opt) THEN NoFields ELSE Ser_FormattedBody(opt[1])
De_FlattenFormatted(o) == Ok(De_FormattedBody(o))

(* Option<Relation> under the key "m.relates_to". *)
De_RelatesTo(o) == Optional(o, "m.relates_to", De_Relation(o["m.relates_to"]))

-----------------------------------------------------------------------------
(* The nine content structs: fields written, and read from the object's keys. *)

(* Ser_AudioMessageEventContent without skip_serializing_if on url. *)
Ser_AudioMessageEventContent_NullUrl(c) ==
    ("body" :> JStr(c.body))
    @@ SkipIfNone("info", c.info, Ser_AudioInfo(c.info[1]))
    @@ ("url" :> IF IsNone(c.url) THEN JNull ELSE Ser_String(c.url[1]))
    @@ SkipIfNone("file", c.file, Ser_EncryptedFile(c.file[1]))

Ser_AudioMessageEventContent(c) ==
    ("body" :> JStr(c.body))
    @@ SkipIfNone("info", c.info, Ser_AudioInfo(c.info[1]))
    @@ SkipIfNone("url", c.url, Ser_String(c.url[1]))
    @@ SkipIfNone("file", c.file, Ser_EncryptedFile(c.file[1]))
De_AudioMessageEventContent(o) ==
    LET b == Required(o, "body", De_String(o["body"]))
        i == Optional(o, "info", De_AudioInfo(o["info"]))
        u == Optional(o, "url", De_String(o["url"]))
        f == Optional(o, "file", De_EncryptedFile(o["file"]))
    IN IF IsErr(b) \/ IsErr(i) \/ IsErr(u) \/ IsErr(f) THEN Err
       ELSE Ok([variant |-> "Audio", body |-> b[1], info |-> i[1], url |-> u[1],
                file |-> f[1]])

(* De_EmoteMessageEventContent under #[serde(deny_unknown_fields)]. *)
De_EmoteMessageEventContent_DenyUnknown(o) ==
    LET b == Required(o, "body", De_String(o["body"]))
        f == De_FlattenFormatted(o)
    IN IF IsErr(b) \/ IsErr(f) \/ ~(DOMAIN o \subseteq {"body", "format", "formatted_body"})
       THEN Err
       ELSE Ok([variant |-> "Emote", body |-> b[1], formatted |-> f[1]])

Ser_EmoteMessageEventContent(c) ==
    ("body" :> JStr(c.body)) @@ Ser_FlattenFormatted(c.formatted)
De_EmoteMessageEventContent(o) ==
    LET b == Required(o, "body", De_String(o["body"]))
        f == De_FlattenFormatted(o)
    IN IF IsErr(b) \/ IsErr(f) THEN Err
       ELSE Ok([variant |-> "Emote", body |-> b[1], formatted |-> f[1]])

Ser_FileMessageEventContent(c) ==
    ("body" :> JStr(c.body))
    @@ SkipIfNone("filename", c.filename, Ser_String(c.filename[1]))
    @@ SkipIfNone("info", c.info, Ser_FileInfo(c.info[1]))
    @@ SkipIfNone("url", c.url, Ser_String(c.url[1]))
    @@ SkipIfNone("file", c.file, Ser_EncryptedFile(c.file[1]))
De_FileMessageEventContent(o) ==
    LET b == Required(o, "body", De_String(o["body"]))
        n == Optional(o, "filename", De_String(o["filename"]))
        i == Optional(o, "info", De_FileInfo(o["info"]))
        u == Optional(o, "url", De_String(o["url"]))
        f == Optional(o, "file", De_EncryptedFile(o["file"]))
    IN IF IsErr(b) \/ IsErr(n) \/ IsErr(i) \/ IsErr(u) \/ IsErr(f) THEN Err
       ELSE Ok([variant |-> "File", body |-> b[1], filename |-> n[1], info |-> i[1],
                url |-> u[1], file |-> f[1]])

Ser_ImageMessageEventContent(c) ==
    ("body" :> JStr(c.body))
    @@ SkipIfNone("info", c.info, Ser_ImageInfo(c.info[1]))
    @@ SkipIfNone("url", c.url, Ser_String(c.url[1]))
    @@ SkipIfNone("file", c.file, Ser_EncryptedFile(c.file[1]))
De_ImageMessageEventContent(o) ==
    LET b == Required(o, "body", De_String(o["body"]))
        i == Optional(o, "info", De_ImageInfo(o["info"]))
        u == Optional(o, "url", De_String(o["url"]))
        f == Optional(o, "file", De_EncryptedFile(o["file"]))
    IN IF IsErr(b) \/ IsErr(i) \/ IsErr(u) \/ IsErr(f) THEN Err
       ELSE Ok([variant |-> "Image", body |-> b[1], info |-> i[1], url |-> u[1],
                file |-> f[1]])

(* De_LocationMessageEventContent with geo_uri as a #[serde(default)] field. *)
De_LocationMessageEventContent_DefaultGeoUri(o) ==
    LET b == Required(o, "body", De_String(o["body"]))
        g == IF Has(o, "geo_uri") THEN De_String(o["geo_uri"]) ELSE Ok("")
        i == Optional(o, "info", De_LocationInfo(o["info"]))
    IN IF IsErr(b) \/ IsErr(g) \/ IsErr(i) THEN Err
       ELSE Ok([variant |-> "Location", body |-> b[1], geo_uri |-> g[1], info |-> i[1]])

Ser_LocationMessageEventContent(c) ==
    ("body" :> JStr(c.body))
    @@ ("geo_uri" :> JStr(c.geo_uri))
    @@ SkipIfNone("info", c.info, Ser_LocationInfo(c.info[1]))
De_LocationMessageEventContent(o) ==
    LET b == Required(o, "body", De_String(o["body"]))
        g == Required(o, "geo_uri", De_String(o["geo_uri"]))
        i == Optional(o, "info", De_LocationInfo(o["info"]))
    IN IF IsErr(b) \/ IsErr(g) \/ IsErr(i) THEN Err
       ELSE Ok([variant |-> "Location", body |-> b[1], geo_uri |-> g[1], info |-> i[1]])

Ser_NoticeMessageEventContent(c) ==
    ("body" :> JStr(c.body))
    @@ Ser_FlattenFormatted(c.formatted)
    @@ SkipIfNone("m.relates_to", c.relates_to, Ser_Relation(c.relates_to[1]))
De_NoticeMessageEventContent(o) ==
    LET b == Required(o, "body", De_String(o["body"]))
        f == De_FlattenFormatted(o)
        r == De_RelatesTo(o)
    IN IF IsErr(b) \/ IsErr(f) \/ IsErr(r) THEN Err
       ELSE Ok([variant |-> "Notice", body |-> b[1], formatted |-> f[1],
                relates_to |-> r[1]])

Ser_ServerNoticeMessageEventContent(c) ==
    ("body" :> JStr(c.body))
    @@ ("server_notice_type" :> Ser_ServerNoticeType(c.server_notice_type))
    @@ SkipIfNone("admin_contact", c.admin_contact, Ser_String(c.admin_contact[1]))
    @@ SkipIfNone("limit_type", c.limit_type, Ser_LimitType(c.limit_type[1]))
De_ServerNoticeMessageEventContent(o) ==
    LET b == Required(o, "body", De_String(o["body"]))
        t == Required(o, "server_notice_type", De_ServerNoticeType(o["server_notice_type"]))
        a == Optional(o, "admin_contact", De_String(o["admin_contact"]))
        l == Optional(o, "limit_type", De_LimitType(o["limit_type"]))
    IN IF IsErr(b) \/ IsErr(t) \/ IsErr(a) \/ IsErr(l) THEN Err
       ELSE Ok([variant |-> "ServerNotice", body |-> b[1], server_notice_type |-> t[1],
                admin_contact |-> a[1], limit_type |-> l[1]])

(* Ser_TextMessageEventContent without skip_serializing_if on relates_to. *)
Ser_TextMessageEventContent_NullRelation(c) ==
    ("body" :> JStr(c.body))
    @@ Ser_FlattenFormatted(c.formatted)
    @@ ("m.relates_to" :> IF IsNone(c.relates_to) THEN JNull
                          ELSE Ser_Relation(c.relates_to[1]))

Ser_TextMessageEventContent(c) ==
    ("body" :> JStr(c.body))
    @@ Ser_FlattenFormatted(c.formatted)
    @@ SkipIfNone("m.relates_to", c.relates_to, Ser_Relation(c.relates_to[1]))
De_TextMessageEventContent(o) ==
    LET b == Required(o, "body", De_String(o["body"]))
        f == De_FlattenFormatted(o)
        r == De_RelatesTo(o)
    IN IF IsErr(b) \/ IsErr(f) \/ IsErr(r) THEN Err
       ELSE Ok([variant |-> "Text", body |-> b[1], formatted |-> f[1],
                relates_to |-> r[1]])

Ser_VideoMessageEventContent(c) ==
    ("body" :> JStr(c.body))
    @@ SkipIfNone("info", c.info, Ser_VideoInfo(c.info[1]))
    @@ SkipIfNone("url", c.url, Ser_String(c.url[1]))
    @@ SkipIfNone("file", c.file, Ser_EncryptedFile(c.file[1]))
De_VideoMessageEventContent(o) ==
    LET b == Required(o, "body", De_String(o["body"]))
        i == Optional(o, "info", De_VideoInfo(o["info"]))
        u == Optional(o, "url", De_String(o["url"]))
        f == Optional(o, "file", De_EncryptedFile(o["file"]))
    IN IF IsErr(b) \/ IsErr(i) \/ IsErr(u) \/ IsErr(f) THEN Err
       ELSE Ok([variant |-> "Video", body |-> b[1], info |-> i[1], url |-> u[1],
                file |-> f[1]])

-----------------------------------------------------------------------------
(* The convenience constructors. *)

NoticeMessageEventContent_plain(body) ==
    [body |-> body, formatted |-> None, relates_to |-> None]
NoticeMessageEventContent_html(body, html_body) ==
    [body |-> body, formatted |-> Some(FormattedBody_html(html_body)), relates_to |-> None]
TextMessageEventContent_plain(body) ==
    [body |-> body, formatted |-> None, relates_to |-> None]
TextMessageEventContent_html(body, html_body) ==
    [body |-> body, formatted |-> Some(FormattedBody_html(html_body)), relates_to |-> None]

(* Self::Text(..) and Self::Notice(..) around a struct value *)
MessageEventContent_Text(c) ==
    [variant |-> "Text", body |-> c.body, formatted |-> c.formatted,
     relates_to |-> c.relates_to]
MessageEventContent_Notice(c) ==
    [variant |-> "Notice", body |-> c.body, formatted |-> c.formatted,
     relates_to |-> c.relates_to]

MessageEventContent_text_plain(body) ==
    MessageEventContent_Text(TextMessageEventContent_plain(body))
MessageEventContent_text_html(body, html_body) ==
    MessageEventContent_Text(TextMessageEventContent_html(body, html_body))
MessageEventContent_notice_plain(body) ==
    MessageEventContent_Notice(NoticeMessageEventContent_plain(body))

(* notice_html building a Text value. *)
MessageEventContent_notice_html_AsText(body, html_body) ==
    MessageEventContent_Text(TextMessageEventContent_html(body, html_body))

MessageEventContent_notice_html(body, html_body) ==
    MessageEventContent_Notice(NoticeMessageEventContent_html(body, html_body))

-----------------------------------------------------------------------------
(* enum MessageEventContent, #[serde(tag = "msgtype")]. *)

Variants ==
    {"Audio", "Emote", "File", "Image", "Location", "Notice", "ServerNotice", "Text", "Video"}

(* #[serde(rename = ...)] of each variant *)
MsgType(variant) ==
    CASE variant = "Audio" -> "m.audio"
      [] variant = "Emote" -> "m.emote"
      [] variant = "File" -> "m.file"
      [] variant = "Image" -> "m.image"
      [] variant = "Location" -> "m.location"
      [] variant = "Notice" -> "m.notice"
      [] variant = "ServerNotice" -> "m.server_notice"
      [] variant = "Text" -> "m.text"
      [] variant = "Video" -> "m.video"

KnownTags == {MsgType(v) : v \in Variants}

Ser_Variant(c) ==
    CASE c.variant = "Audio" -> Ser_AudioMessageEventContent(c)
      [] c.variant = "Emote" -> Ser_EmoteMessageEventContent(c)
      [] c.variant = "File" -> Ser_FileMessageEventContent(c)
      [] c.variant = "Image" -> Ser_ImageMessageEventContent(c)
      [] c.variant = "Location" -> Ser_LocationMessageEventContent(c)
      [] c.variant = "Notice" -> Ser_NoticeMessageEventContent(c)
      [] c.variant = "ServerNotice" -> Ser_ServerNoticeMessageEventContent(c)
      [] c.variant = "Text" -> Ser_TextMessageEventContent(c)
      [] c.variant = "Video" -> Ser_VideoMessageEventContent(c)

De_Variant(tag, o) ==
    CASE tag = "m.audio" -> De_AudioMessageEventContent(o)
      [] tag = "m.emote" -> De_EmoteMessageEventContent(o)
      [] tag = "m.file" -> De_FileMessageEventContent(o)
      [] tag = "m.image" -> De_ImageMessageEventContent(o)
      [] tag = "m.location" -> De_LocationMessageEventContent(o)
      [] tag = "m.notice" -> De_NoticeMessageEventContent(o)
      [] tag = "m.server_notice" -> De_ServerNoticeMessageEventContent(o)
      [] tag = "m.text" -> De_TextMessageEventContent(o)
      [] tag = "m.video" -> De_VideoMessageEventContent(o)
      [] OTHER -> Err

Without(o, k) == [x \in DOMAIN o \ {k} |-> o[x]]

Ser_MessageEventContent(c) == JObj(("msgtype" :> JStr(MsgType(c.variant))) @@ Ser_Variant(c))

(* De_MessageEventContent reading an object without a tag as m.text. *)
De_MessageEventContent_DefaultTag(j) ==
    IF j.t # "obj" THEN Err
    ELSE IF ~Has(j.v, "msgtype") THEN De_Variant("m.text", j.v)
    ELSE IF j.v["msgtype"].t # "str" THEN Err
    ELSE De_Variant(j.v["msgtype"].v, Without(j.v, "msgtype"))

(* The tag must be present and a string naming a variant; the variant's *)
(* struct is then read from the remaining keys.                         *)
De_MessageEventContent(j) ==
    IF j.t # "obj" THEN Err
    ELSE IF ~Has(j.v, "msgtype") THEN Err
    ELSE IF j.v["msgtype"].t # "str" THEN Err
    ELSE De_Variant(j.v["msgtype"].v, Without(j.v, "msgtype"))

-----------------------------------------------------------------------------
(* relation.rs: the bundled-reaction summary.  Its Option fields carry no  *)
(* serde attribute, so None is written as null.                             *)

Ser_Int(n) == JNum(n)
Ser_Option(opt, written) == IF IsNone(opt) THEN JNull ELSE written

Ser_BundledReaction(r) ==
    ("key" :> JStr(r.key))
    @@ ("origin_server_ts" :> Ser_Option(r.origin_server_ts, Ser_Int(r.origin_server_ts[1])))
    @@ ("count" :> Ser_UInt(r.count))

(* #[serde(tag = "type")], Reaction renamed m.reaction *)
Ser_BundledAnnotation(a) == JObj(("type" :> JStr("m.reaction")) @@ Ser_BundledReaction(a))

Ser_AnnotationChunk(c) ==
    JObj(("chunk" :> JArr([i \in 1..Len(c.chunk) |-> Ser_BundledAnnotation(c.chunk[i])]))
         @@ ("next_batch" :> Ser_Option(c.next_batch, Ser_String(c.next_batch[1]))))

Ser_Relations(r) ==
    JObj("m.annotation" :> Ser_Option(r.annotation, Ser_AnnotationChunk(r.annotation[1])))

BundledReactions == [key : {"+1"}, origin_server_ts : Option({1}), count : {1}]
Chunks == UNION {[1..n -> BundledReactions] : n \in 0..MaxChunk}
AnnotationChunks == [chunk : Chunks, next_batch : Option({"batch2"})]
BundledRelations == [annotation : Option(AnnotationChunks)]

-----------------------------------------------------------------------------
(* Inputs: relation wire values and logical relations. *)

Pick(k, S) == {NoFields} \cup {k :> s : s \in S}

RelationWireObjects ==
    { a @@ b @@ c @@ d @@ e :
        a \in Pick("m.in_reply_to",
                   {Ser_InReplyTo(InReplyTo("$e1:example.org")), JStr("x"), JObj(NoFields)}),
        b \in Pick("rel_type",
                   {JStr("m.annotation"), JStr("m.reference"), JStr("m.replace"),
                    JStr("m.other"), JNum(1)}),
        c \in Pick("event_id", {JStr("$e1:example.org"), JStr("nope")}),
        d \in Pick("key", {JStr("k")}),
        e \in Pick("foo", {JStr("bar")}) }

RelationWires == {JObj(o) : o \in RelationWireObjects} \cup {JNull, JStr("x"), JNum(1)}

Relations ==
    {Relation_Reply(InReplyTo(e)) : e \in EventIds}
    \cup {Relation_Annotation(Annotation(e, "k")) : e \in EventIds}
    \cup {Relation_Reference(Reference(e)) : e \in EventIds}
    \cup {Relation_Replacement(Replacement(e)) : e \in EventIds}
    \cup {Relation_Custom(v) : v \in RelationWires}

-----------------------------------------------------------------------------
(* Inputs: logical content values, every optional field present or absent. *)

Bodies == {"test"}
Urls == {"mxc://example.org/a"}
EncryptedFiles == {[url |-> u] : u \in Urls}
ThumbnailInfos == {[mimetype |-> None]}
ImageInfos == [mimetype : Option({"image/png"})]
AudioInfos == [duration : Option({1}), mimetype : Option({"audio/aac"}), size : Option({1})]
FileInfos ==
    [mimetype : Option({"text/plain"}), size : Option({1}),
     thumbnail_info : Option(ThumbnailInfos), thumbnail_url : Option(Urls),
     thumbnail_file : Option(EncryptedFiles)]
LocationInfos ==
    [thumbnail_info : Option(ThumbnailInfos), thumbnail_url : Option(Urls),
     thumbnail_file : Option(EncryptedFiles)]
VideoInfos ==
    [duration : Option({1}), height : Option({1}), width : Option({1}),
     mimetype : Option({"video/mp4"}), size : Option({1}),
     thumbnail_info : Option(ThumbnailInfos), thumbnail_url : Option(Urls),
     thumbnail_file : Option(EncryptedFiles)]

MessageFormats == {MessageFormat_from(s) : s \in {HtmlFormat, "x.custom"}}
FormattedBodies == {FormattedBody(f, "<em>test</em>") : f \in MessageFormats}
ServerNoticeTypes == {ServerNoticeType_from(s) : s \in {UsageLimitReached, "x.notice"}}
LimitTypes == {LimitType_from(s) : s \in {MonthlyActiveUser, "x_limit"}}

ReplyWire == JObj("m.in_reply_to" :> Ser_InReplyTo(InReplyTo("$e1:example.org")))

(* Relations a text or notice content is given. *)
ContentRelations ==
    {r \in Relations : r.kind # "Custom"}
    \cup {Relation_Custom(v) : v \in {JObj("foo" :> JStr("bar")), JNull, ReplyWire}}

Contents ==
    [variant : {"Audio"}, body : Bodies, info : Option(AudioInfos), url : Option(Urls),
     file : Option(EncryptedFiles)]
    \cup [variant : {"Emote"}, body : Bodies, formatted : Option(FormattedBodies)]
    \cup [variant : {"File"}, body : Bodies, filename : Option({"a.txt"}),
          info : Option(FileInfos), url : Option(Urls), file : Option(EncryptedFiles)]
    \cup [variant : {"Image"}, body : Bodies, info : Option(ImageInfos), url : Option(Urls),
          file : Option(EncryptedFiles)]
    \cup [variant : {"Location"}, body : Bodies, geo_uri : {"geo:51.5,-0.1"},
          info : Option(LocationInfos)]
    \cup [variant : {"Notice"}, body : Bodies, formatted : Option(FormattedBodies),
          relates_to : Option(ContentRelations)]
    \cup [variant : {"ServerNotice"}, body : Bodies, server_notice_type : ServerNoticeTypes,
          admin_contact : Option({"mailto:a@example.org"}), limit_type : Option(LimitTypes)]
    \cup [variant : {"Text"}, body : Bodies, formatted : Option(FormattedBodies),
          relates_to : Option(ContentRelations)]
    \cup [variant : {"Video"}, body : Bodies, info : Option(VideoInfos), url : Option(Urls),
          file : Option(EncryptedFiles)]

(* Inputs: the constructors' arguments. *)
PlainBodies == {"test", "Hello, World!"}
HtmlBodies == {"<em>test</em>", "Hello, <em>World</em>!"}

(* Inputs: wire objects, well formed and not. *)
UnknownTag == "m.unknown_future_type"

ContentWireObjects ==
    { a @@ b @@ c @@ d @@ e @@ f @@ g @@ h @@ i :
        a \in Pick("msgtype", {JStr(t) : t \in KnownTags \cup {UnknownTag}} \cup {JNum(1), JNull}),
        b \in Pick("body", {JStr("test")}),
        c \in Pick("geo_uri", {JStr("geo:51.5,-0.1")}),
        d \in Pick("url", {JStr("mxc://example.org/a")}),
        e \in Pick("format", {JStr(HtmlFormat), JNum(1)}),
        f \in Pick("formatted_body", {JStr("<em>test</em>"), JNum(1)}),
        g \in Pick("m.relates_to", {ReplyWire, JNull}),
        h \in Pick("server_notice_type", {JStr(UsageLimitReached)}),
        i \in Pick("foo", {JStr("bar")}) }

ContentWires == {JObj(o) : o \in ContentWireObjects}

-----------------------------------------------------------------------------
(* The state machine: a value is given, then serialized and deserialized. *)

Init ==
    /\ \/ /\ mode = "relation"
          /\ \/ logical \in {Some(r) : r \in Relations} /\ wire = None
             \/ wire \in {Some(j) : j \in RelationWires} /\ logical = None
       \/ /\ mode = "content"
          /\ \/ logical \in {Some(c) : c \in Contents} /\ wire = None
             \/ wire \in {Some(j) : j \in ContentWires} /\ logical = None
             \/ wire = None /\ logical = None
       \/ /\ mode = "relations"
          /\ logical \in {Some(r) : r \in BundledRelations} /\ wire = None
    /\ orig = [logical |-> logical, wire |-> wire]
    /\ hist = <<>>
    /\ failed = FALSE
    /\ args = <<>>

(* A constructor is called where no value has been given or built yet. *)
Blank == mode = "content" /\ IsNone(logical) /\ IsNone(wire) /\ hist = <<>>

text_plain ==
    /\ Blank
    /\ \E body \in PlainBodies :
           /\ logical' = Some(MessageEventContent_text_plain(body))
           /\ args' = <<body>>
    /\ hist' = <<"text_plain">>
    /\ UNCHANGED <<mode, wire, orig, failed>>

text_html ==
    /\ Blank
    /\ \E body \in PlainBodies, html_body \in HtmlBodies :
           /\ logical' = Some(MessageEventContent_text_html(body, html_body))
           /\ args' = <<body, html_body>>
    /\ hist' = <<"text_html">>
    /\ UNCHANGED <<mode, wire, orig, failed>>

notice_plain ==
    /\ Blank
    /\ \E body \in PlainBodies :
           /\ logical' = Some(MessageEventContent_notice_plain(body))
           /\ args' = <<body>>
    /\ hist' = <<"notice_plain">>
    /\ UNCHANGED <<mode, wire, orig, failed>>

notice_html ==
    /\ Blank
    /\ \E body \in PlainBodies, html_body \in HtmlBodies :
           /\ logical' = Some(MessageEventContent_notice_html(body, html_body))
           /\ args' = <<body, html_body>>
    /\ hist' = <<"notice_html">>
    /\ UNCHANGED <<mode, wire, orig, failed>>

(* serde_json::to_value(&relation) *)
SerializeRelation ==
    /\ mode = "relation" /\ ~failed /\ IsSome(logical) /\ Len(hist) < MaxSteps
    /\ wire' = Some(Ser_Relation(logical[1]))
    /\ hist' = Append(hist, "serialize")
    /\ UNCHANGED <<mode, logical, orig, failed, args>>

(* serde_json::from_value::<Relation>(json) *)
DeserializeRelation ==
    /\ mode = "relation" /\ ~failed /\ IsSome(wire) /\ Len(hist) < MaxSteps
    /\ LET r == De_Relation(wire[1])
       IN /\ failed' = IsErr(r)
          /\ logical' = r
    /\ hist' = Append(hist, "deserialize")
    /\ UNCHANGED <<mode, wire, orig, args>>

(* serde_json::to_value(&message_event_content) *)
SerializeContent ==
    /\ mode = "content" /\ ~failed /\ IsSome(logical) /\ Len(hist) < MaxSteps
    /\ wire' = Some(Ser_MessageEventContent(logical[1]))
    /\ hist' = Append(hist, "serialize")
    /\ UNCHANGED <<mode, logical, orig, failed, args>>

(* Raw<MessageEventContent>::deserialize() *)
DeserializeContent ==
    /\ mode = "content" /\ ~failed /\ IsSome(wire) /\ Len(hist) < MaxSteps
    /\ LET r == De_MessageEventContent(wire[1])
       IN /\ failed' = IsErr(r)
          /\ logical' = r
    /\ hist' = Append(hist, "deserialize")
    /\ UNCHANGED <<mode, wire, orig, args>>

(* serde_json::to_value(&relations) *)
SerializeRelations ==
    /\ mode = "relations" /\ ~failed /\ IsSome(logical) /\ Len(hist) < MaxSteps
    /\ wire' = Some(Ser_Relations(logical[1]))
    /\ hist' = Append(hist, "serialize")
    /\ UNCHANGED <<mode, logical, orig, failed, args>>

Next ==
    \/ SerializeRelation \/ DeserializeRelation
    \/ SerializeContent \/ DeserializeContent
    \/ SerializeRelations
    \/ text_plain \/ text_html \/ notice_plain \/ notice_html

Spec == Init /\ [][Next]_vars

-----------------------------------------------------------------------------
(* What a run was given and what has been applied to it. *)

GivenWire == IsSome(orig.wire)
GivenLogical == IsSome(orig.logical)
Decoded == GivenWire /\ Len(hist) >= 1
LastOp == hist[Len(hist)]

TagOf(j) == j.v["msgtype"]
HasStringTag(j) == j.t = "obj" /\ Has(j.v, "msgtype") /\ TagOf(j).t = "str"

-----------------------------------------------------------------------------
(* C1: decoding an object whose msgtype is a string outside the nine known *)
(* tags never fails; it yields a Custom variant holding the whole object,   *)
(* and encoding that value gives the original object back.                  *)
C1_UnknownTagYieldsCustom ==
    (mode = "content" /\ Decoded /\ HasStringTag(orig.wire[1])
        /\ TagOf(orig.wire[1]).v \notin KnownTags)
    => /\ ~failed
       /\ IsSome(logical)
       /\ logical[1].variant = "Custom"
       /\ logical[1].value = orig.wire[1]
       /\ (hist = <<"deserialize", "serialize">> => wire = orig.wire)

(* C2: for every known variant with any combination of present and absent *)
(* optional fields, the encoded object carries the variant's msgtype and    *)
(* decoding it gives the same variant with the same field values.           *)
C2_ContentRoundTrip ==
    (mode = "content" /\ GivenLogical /\ hist = <<"serialize", "deserialize">>)
    => /\ TagOf(wire[1]) = JStr(MsgType(orig.logical[1].variant))
       /\ ~failed
       /\ logical = orig.logical

(* C3: a known msgtype whose object lacks a required field of that variant *)
(* (body for all, geo_uri for m.location, server_notice_type for            *)
(* m.server_notice) fails to decode: no variant is returned, whatever other *)
(* keys the object has.                                                     *)
LacksRequired(j) ==
    /\ HasStringTag(j)
    /\ TagOf(j).v \in KnownTags
    /\ \/ ~Has(j.v, "body")
       \/ TagOf(j).v = "m.location" /\ ~Has(j.v, "geo_uri")
       \/ TagOf(j).v = "m.server_notice" /\ ~Has(j.v, "server_notice_type")

C3_MissingRequiredFieldFails ==
    (mode = "content" /\ Decoded /\ LacksRequired(orig.wire[1]))
    => failed /\ IsNone(logical)

C3_Witness ==
    /\ mode = "content" /\ Decoded /\ failed
    /\ HasStringTag(orig.wire[1])
    /\ TagOf(orig.wire[1]) = JStr("m.location")
    /\ Has(orig.wire[1].v, "body") /\ Has(orig.wire[1].v, "url")
    /\ ~Has(orig.wire[1].v, "geo_uri")

(* C4: a relation wire object holding a valid m.in_reply_to object as well *)
(* as rel_type and event_id keys decodes to Reply with that in_reply_to.    *)
BothShapes(j) ==
    /\ j.t = "obj"
    /\ Has(j.v, "m.in_reply_to") /\ IsOk(De_InReplyTo(j.v["m.in_reply_to"]))
    /\ Has(j.v, "rel_type") /\ Has(j.v, "event_id")

C4_ReplyTakesPrecedence ==
    (mode = "relation" /\ GivenWire /\ hist = <<"deserialize">> /\ BothShapes(orig.wire[1]))
    => /\ ~failed
       /\ logical = Some(Relation_Reply(
              InReplyTo(orig.wire[1].v["m.in_reply_to"].v["event_id"].v)))

C4_Witness ==
    /\ mode = "relation" /\ hist = <<"deserialize">> /\ GivenWire
    /\ BothShapes(orig.wire[1])
    /\ IsOk(De_RelationJsonRepr(orig.wire[1]))
    /\ logical[1].kind = "Reply"

(* C5: every logical relation, a Custom holding any JSON value included,   *)
(* comes back unchanged from its wire form, and no other logical relation   *)
(* has the same wire form.                                                  *)
C5_RelationRoundTripInjective ==
    (mode = "relation" /\ GivenLogical)
    => /\ hist = <<"serialize", "deserialize">> => (~failed /\ logical = orig.logical)
       /\ hist = <<"serialize">> =>
              \A r \in Relations : Ser_Relation(r) = wire[1] => r = orig.logical[1]

(* C6: decoding a relation never fails, and a wire object with neither an  *)
(* m.in_reply_to nor a rel_type key decodes to Custom holding that object,  *)
(* which encodes to the same object again.                                  *)
NoRelationKey(j) == j.t = "obj" /\ ~Has(j.v, "m.in_reply_to") /\ ~Has(j.v, "rel_type")

C6_RelationDecodeTotal ==
    (mode = "relation" /\ Decoded)
    => /\ ~failed
       /\ IsSome(logical)
       /\ NoRelationKey(orig.wire[1]) =>
              /\ logical = Some(Relation_Custom(orig.wire[1]))
              /\ LastOp = "serialize" => wire = orig.wire

C6_Witness ==
    /\ mode = "relation" /\ hist = <<"deserialize", "serialize">>
    /\ orig.wire = Some(JObj("foo" :> JStr("bar")))
    /\ logical = Some(Relation_Custom(JObj("foo" :> JStr("bar"))))
    /\ wire = orig.wire

(* C7: for Text, Notice and Emote, encoding a present formatted value      *)
(* writes its two sub-fields as the top-level keys format and               *)
(* formatted_body beside body and msgtype, with no nested object; encoding  *)
(* an absent one writes neither key; decoding gives a formatted value that  *)
(* is present exactly when both keys are present.                           *)
TextLike == {"Text", "Notice", "Emote"}

C7_FormattedFlattening ==
    (mode = "content" /\ Len(hist) >= 1 /\ ~failed /\ logical[1].variant \in TextLike)
    => LET c == logical[1]
           o == wire[1].v
       IN /\ (LastOp = "serialize" /\ IsSome(c.formatted)) =>
                 /\ {"body", "msgtype", "format", "formatted_body"} \subseteq DOMAIN o
                 /\ o["format"] = JStr(MessageFormat_as_str(c.formatted[1].format))
                 /\ o["formatted_body"] = JStr(c.formatted[1].body)
                 /\ ~Has(o, "formatted")
          /\ (LastOp = "serialize" /\ IsNone(c.formatted)) =>
                 ~Has(o, "format") /\ ~Has(o, "formatted_body")
          /\ LastOp = "deserialize" =>
                 (IsSome(c.formatted) <=> (Has(o, "format") /\ Has(o, "formatted_body")))

(* C8: encoding a content value whose optional fields are all absent gives *)
(* an object with only the keys body and msgtype, none of them null.        *)
OptionalFields ==
    {"info", "url", "file", "filename", "formatted", "relates_to", "admin_contact",
     "limit_type"}
AllOptionalAbsent(c) == \A f \in DOMAIN c \cap OptionalFields : IsNone(c[f])
NoNulls(o) == \A k \in DOMAIN o : o[k].t # "null"
EncodedBare == mode = "content" /\ GivenLogical /\ hist = <<"serialize">>
                   /\ AllOptionalAbsent(logical[1])

C8_OnlyBodyAndMsgtype ==
    EncodedBare => DOMAIN wire[1].v = {"body", "msgtype"} /\ NoNulls(wire[1].v)

(* C8 as amended: the object holds body, msgtype and the variant's other   *)
(* required fields (geo_uri for Location, server_notice_type for            *)
(* ServerNotice), and no key is null.                                       *)
RequiredKeys(variant) ==
    CASE variant = "Location" -> {"geo_uri"}
      [] variant = "ServerNotice" -> {"server_notice_type"}
      [] OTHER -> {}

C8_OnlyRequiredKeys ==
    EncodedBare =>
        /\ DOMAIN wire[1].v = {"body", "msgtype"} \cup RequiredKeys(logical[1].variant)
        /\ NoNulls(wire[1].v)

C8_Witness ==
    /\ EncodedBare
    /\ logical[1].variant = "Location"
    /\ DOMAIN wire[1].v = {"body", "geo_uri", "msgtype"}

(* C9: a content value's relation is written, in its wire form, under the  *)
(* one key m.relates_to (a Reply as {"m.in_reply_to": {"event_id": ...}});  *)
(* an absent relation writes no m.relates_to key.                           *)
C9_RelatesToEmbedding ==
    (mode = "content" /\ Len(hist) >= 1 /\ LastOp = "serialize")
    => LET c == logical[1]
           o == wire[1].v
       IN IF c.variant \in {"Text", "Notice"} /\ IsSome(c.relates_to)
          THEN /\ Has(o, "m.relates_to")
               /\ o["m.relates_to"] = Ser_Relation(c.relates_to[1])
               /\ c.relates_to[1].kind = "Reply" =>
                      o["m.relates_to"] =
                          JObj("m.in_reply_to" :>
                               JObj("event_id" :> JStr(c.relates_to[1].in_reply_to.event_id)))
               /\ DOMAIN o \subseteq {"body", "msgtype", "format", "formatted_body",
                                      "m.relates_to"}
          ELSE ~Has(o, "m.relates_to")

C9_Witness ==
    /\ mode = "content" /\ hist = <<"serialize">>
    /\ logical[1].variant = "Text"
    /\ IsSome(logical[1].relates_to) /\ logical[1].relates_to[1].kind = "Reply"
    /\ wire[1].v["m.relates_to"] = ReplyWire

(* C10: decoding an object without a msgtype key, or whose msgtype is not  *)
(* a string, fails and returns no variant.                                  *)
C10_TagAbsentOrNotStringFails ==
    (mode = "content" /\ Decoded /\ ~HasStringTag(orig.wire[1]))
    => failed /\ IsNone(logical)

C10_Witness ==
    /\ mode = "content" /\ Decoded /\ failed
    /\ Has(orig.wire[1].v, "body")
    /\ ~Has(orig.wire[1].v, "msgtype")

(* C11: encoding the bundled-reaction summary leaves out every optional   *)
(* field without a value: no origin_server_ts key on a BundledReaction      *)
(* without one, no next_batch key on an AnnotationChunk without one, no     *)
(* m.annotation key on a Relations without one, and no null anywhere.       *)
C11_BundledOmitsAbsent ==
    (mode = "relations" /\ Len(hist) >= 1 /\ LastOp = "serialize")
    => LET r == logical[1]
           o == wire[1].v
       IN /\ IsNone(r.annotation) => ~Has(o, "m.annotation")
          /\ IsSome(r.annotation) =>
                 LET c == r.annotation[1]
                     oc == o["m.annotation"].v
                 IN /\ IsNone(c.next_batch) => ~Has(oc, "next_batch")
                    /\ NoNulls(oc)
                    /\ \A i \in 1..Len(c.chunk) :
                           /\ IsNone(c.chunk[i].origin_server_ts) =>
                                  ~Has(oc["chunk"].v[i].v, "origin_server_ts")
                           /\ NoNulls(oc["chunk"].v[i].v)

(* C12: text_plain(b) and notice_plain(b) build a Text / Notice value     *)
(* with body b, no formatted value and no relation; text_html(b, h) and     *)
(* notice_html(b, h) build one with body b, formatted present with format   *)
(* Html and formatted body h, and no relation.  The value is fixed by the   *)
(* arguments and is not changed by serializing it afterwards.               *)
Constructors == {"text_plain", "text_html", "notice_plain", "notice_html"}

Built(variant, formatted) ==
    [variant |-> variant, body |-> args[1], formatted |-> formatted, relates_to |-> None]

C12_ConstructorsBuildValues ==
    (mode = "content" /\ Len(hist) >= 1 /\ hist[1] \in Constructors
        /\ "deserialize" \notin {hist[i] : i \in 1..Len(hist)})
    => LET html == Some([format |-> [variant |-> "Html"], body |-> args[2]])
       IN /\ ~failed
          /\ hist[1] = "text_plain" => logical = Some(Built("Text", None))
          /\ hist[1] = "notice_plain" => logical = Some(Built("Notice", None))
          /\ hist[1] = "text_html" => logical = Some(Built("Text", html))
          /\ hist[1] = "notice_html" => logical = Some(Built("Notice", html))

C12_Witness ==
    /\ mode = "content" /\ hist = <<"notice_html", "serialize">>
    /\ args = <<"Hello, World!", "Hello, <em>World</em>!">>
    /\ logical[1].variant = "Notice"
    /\ logical[1].formatted[1].body = "Hello, <em>World</em>!"

(* C13: under m.text, m.notice or m.emote, a format or formatted_body key *)
(* that is present with a value of the wrong JSON type makes decoding fail; *)
(* it does not succeed with formatted absent.                               *)
WrongType(o, k) == Has(o, k) /\ o[k].t # "str"

C13_WrongTypedFormatFails ==
    (mode = "content" /\ Decoded /\ HasStringTag(orig.wire[1])
        /\ TagOf(orig.wire[1]).v \in {"m.text", "m.notice", "m.emote"}
        /\ (WrongType(orig.wire[1].v, "format") \/ WrongType(orig.wire[1].v, "formatted_body")))
    => failed /\ IsNone(logical)

(* C14: decoding an object with a known msgtype ignores every key that is *)
(* not a field of the matched variant: the outcome is that of the object    *)
(* without those keys, and encoding the decoded value gives an object       *)
(* without them.                                                            *)
FieldKeys(tag) ==
    CASE tag \in {"m.audio", "m.image", "m.video"} -> {"body", "info", "url", "file"}
      [] tag = "m.emote" -> {"body", "format", "formatted_body"}
      [] tag = "m.file" -> {"body", "filename", "info", "url", "file"}
      [] tag = "m.location" -> {"body", "geo_uri", "info"}
      [] tag \in {"m.notice", "m.text"} -> {"body", "format", "formatted_body", "m.relates_to"}
      [] tag = "m.server_notice" ->
             {"body", "server_notice_type", "admin_contact", "limit_type"}

ForeignKeys(j) == DOMAIN j.v \ (FieldKeys(TagOf(j).v) \cup {"msgtype"})
OwnKeysOnly(j) == JObj([k \in DOMAIN j.v \ ForeignKeys(j) |-> j.v[k]])

C14_ForeignKeysIgnored ==
    (mode = "content" /\ Decoded /\ HasStringTag(orig.wire[1])
        /\ TagOf(orig.wire[1]).v \in KnownTags /\ ForeignKeys(orig.wire[1]) # {})
    => /\ hist = <<"deserialize">> =>
              /\ logical = De_MessageEventContent(OwnKeysOnly(orig.wire[1]))
              /\ ~LacksRequired(orig.wire[1]) => ~failed
       /\ hist = <<"deserialize", "serialize">> =>
              ForeignKeys(orig.wire[1]) \cap DOMAIN wire[1].v = {}

C14_Witness ==
    /\ mode = "content" /\ hist = <<"deserialize", "serialize">>
    /\ HasStringTag(orig.wire[1]) /\ TagOf(orig.wire[1]) = JStr("m.emote")
    /\ Has(orig.wire[1].v, "m.relates_to") /\ Has(orig.wire[1].v, "url")
    /\ DOMAIN wire[1].v = {"body", "msgtype"}

====
